---- MODULE Spec2Model ----
(***************************************************************************)
(* State-machine model of the extraction-and-enrichment pipeline of        *)
(* src/scrapers/makemytrip_scraper.py (class TourPulseAIScraper):          *)
(* scrape_hotel_data (the listing walker and pipeline driver),             *)
(* extract_hotel_reviews (the review harvester), _extract_detailed_reviews *)
(* (detail-page extraction and "show more" pagination),                    *)
(* calculate_sentiment_score and extract_numeric_features.                 *)
(*                                                                         *)
(* A review text is modelled as the sequence of its whitespace-separated   *)
(* tokens, so that str.split, str.lower, str.startswith and len are        *)
(* computed as the code computes them.  A sentiment score (a float in the  *)
(* code) is modelled as the exact rational <<numerator, denominator>> in   *)
(* lowest terms.  The browser (Selenium) is the environment: its window    *)
(* handles, the active browsing context and the DOM of the pages; every    *)
(* page-controller call may raise a WebDriverException.                    *)
(***************************************************************************)
EXTENDS Integers, Sequences, FiniteSets, TLC

(***************************************************************************)
(* Bounds of the model.                                                    *)
(***************************************************************************)
MaxRows == 1       \* rows of the listing page in Spec (rich pages)
MaxHotels == 2     \* rows of the listing page / row budget in SpecWalk
MaxTime == 1       \* int(time.time()) ranges over 0..MaxTime
MaxFaults == 1     \* calls of the page controller that raise out of the blue
MaxYears == 1      \* check-in years range over 2024..(2024 + MaxYears)
MaxWords == 2      \* tokens of a short review text
MaxTexts == 2      \* review texts handed to calculate_sentiment_score

(***************************************************************************)
(* Program constants.                                                      *)
(***************************************************************************)
min_reviews == 5          \* extract_hotel_reviews: min_reviews = 5
max_attempts == 3         \* extract_hotel_reviews: max_attempts = 3
show_more_attempts == 5   \* _extract_detailed_reviews: for attempt in range(5)
min_text_len == 20        \* len(review_text) > 20
max_highlight_len == 50   \* len(highlight_text) < 50
max_highlights == 5       \* highlight_elements[:5]

Listing == 0              \* the window handle of the listing context
Unbound == -1             \* main_window before line 255 has run
Closed == -2              \* the active context after driver.close()

None == <<>>              \* Python None (an unset Optional field)

(***************************************************************************)
(* Sequences.                                                              *)
(***************************************************************************)
Min(a, b) == IF a <= b THEN a ELSE b

Take(s, n) == SubSeq(s, 1, Min(n, Len(s)))          \* s[:n]

Drop(s, n) == SubSeq(s, Min(n, Len(s)) + 1, Len(s)) \* s[n:]

Range(s) == {s[k] : k \in 1..Len(s)}

Last(s) == s[Len(s)]                                \* s[-1]

RECURSIVE Count(_, _)
Count(s, x) ==                                      \* list.count(x)
    IF s = <<>> THEN 0
    ELSE (IF Head(s) = x THEN 1 ELSE 0) + Count(Tail(s), x)

(***************************************************************************)
(* Texts.  CharLen is len() of the stripped text: the tokens joined by     *)
(* single blanks.                                                          *)
(***************************************************************************)
RECURSIVE SumLen(_)
SumLen(words) ==
    IF words = <<>> THEN 0 ELSE Len(Head(words)) + SumLen(Tail(words))

CharLen(text) ==
    IF text = <<>> THEN 0 ELSE SumLen(text) + (Len(text) - 1)

\* str.lower() on the capitalised tokens of the vocabulary
Lower(word) ==
    CASE word = "Great" -> "great"
      [] word = "Terrible" -> "terrible"
      [] word = "Nice" -> "nice"
      [] word = "No" -> "no"
      [] word = "Rooms" -> "rooms"
      [] word = "Breakfast" -> "breakfast"
      [] word = "Staff" -> "staff"
      [] word = "Pool" -> "pool"
      [] OTHER -> word

\* r.startswith("No review available")
StartsWithMarker(text) ==
    /\ Len(text) >= 3
    /\ text[1] = "No"
    /\ text[2] = "review"
    /\ text[3] = "available"

\* f"No review available {i + 1}" for the 0-based index i
PlaceholderText(i) == <<"No", "review", "available", ToString(i + 1)>>

(***************************************************************************)
(* calculate_sentiment_score (lines 530-559).                              *)
(***************************************************************************)
positive_words ==
    {"excellent", "amazing", "wonderful", "fantastic", "great", "good", "nice",
     "clean", "comfortable", "friendly", "helpful", "recommend", "perfect",
     "beautiful", "spacious", "convenient", "professional", "outstanding",
     "love", "loved", "enjoy", "enjoyed", "pleasant", "satisfied"}

negative_words ==
    {"terrible", "awful", "bad", "worst", "horrible", "dirty", "uncomfortable",
     "rude", "unhelpful", "disappointing", "poor", "cheap", "noisy", "smelly",
     "broken", "outdated", "cramped", "overpriced", "hate", "hated", "annoying",
     "disgusting", "unacceptable", "nightmare", "avoid"}

RECURSIVE GCD(_, _)
GCD(a, b) == IF b = 0 THEN a ELSE GCD(b, a % b)

Abs(n) == IF n < 0 THEN -n ELSE n

\* the rational n/d (d > 0) in lowest terms
Rat(n, d) == LET g == GCD(Abs(n), d) IN <<n \div g, d \div g>>

WordScore(word) ==
    IF Lower(word) \in positive_words THEN 1
    ELSE IF Lower(word) \in negative_words THEN -1
    ELSE 0

RECURSIVE TextScore(_)
TextScore(words) ==
    IF words = <<>> THEN 0 ELSE WordScore(Head(words)) + TextScore(Tail(words))

RECURSIVE TotalScore(_)
TotalScore(reviews) ==
    IF reviews = <<>> THEN 0
    ELSE TextScore(Head(reviews)) + TotalScore(Tail(reviews))

RECURSIVE WordCount(_)
WordCount(reviews) ==
    IF reviews = <<>> THEN 0
    ELSE Len(Head(reviews)) + WordCount(Tail(reviews))

\* total_score / word_count * 10 without the clamp of line 559
Unclamped(n, d) == Rat(n, d)

\* max(-1.0, min(1.0, total_score / word_count * 10))
Clamp(n, d) ==
    IF n >= d THEN <<1, 1>>
    ELSE IF n <= -d THEN <<-1, 1>>
    ELSE Rat(n, d)

calculate_sentiment_score(reviews) ==
    IF reviews = <<>> THEN <<0, 1>>
    ELSE IF WordCount(reviews) = 0 THEN <<0, 1>>
    ELSE Clamp(10 * TotalScore(reviews), WordCount(reviews))

(***************************************************************************)
(* The environment: review texts and the pages of the site.                *)
(* A page is the DOM of one listing row and of the detail page its link    *)
(* leads to:                                                               *)
(*   present     the row element Listing_hotel_<i> exists                  *)
(*   inline      per review selector (in priority order; the selectors not *)
(*               listed match nothing) the texts of the matched elements   *)
(*   highlights  the same for the highlight selectors                      *)
(*   link        the href of the first displayed link ("" when none)       *)
(*   captcha     the detail page source holds a CAPTCHA keyword            *)
(*   cards       per detail review selector the texts of the review cards  *)
(*   initial     the number of cards rendered when the page has loaded     *)
(*   step        the number of cards one click on "show more" adds         *)
(***************************************************************************)
V1 == <<"Great", "location", "near", "the", "beach", "front">>
V2 == <<"Rooms", "were", "large", "with", "balcony", "views">>
V3 == <<"Breakfast", "buffet", "served", "until", "late", "morning">>
V4 == <<"Staff", "arranged", "airport", "transfer", "quickly", "today">>
V5 == <<"Pool", "area", "stays", "open", "until", "midnight">>
V6 == <<"Terrible", "noisy", "street", "outside", "our", "window">>
ShortText == <<"Nice", "stay">>
MarkerText == <<"No", "review", "available", "for", "this", "hotel">>
MarkerText3 == <<"No", "review", "available", "3">>
H1 == <<"Free", "wifi">>
H2 == <<"Sea", "view">>

Page(inl, hl, lnk, cap, crd, ini, stp) ==
    [present |-> TRUE, inline |-> inl, highlights |-> hl, link |-> lnk,
     captcha |-> cap, cards |-> crd, initial |-> ini, step |-> stp]

NoRow ==
    [present |-> FALSE, inline |-> <<>>, highlights |-> <<>>, link |-> "",
     captcha |-> FALSE, cards |-> <<>>, initial |-> 0, step |-> 0]

\* nothing on the row, no link
PageEmpty == Page(<< <<>>, <<>> >>, << <<>>, <<>> >>, "", FALSE, <<>>, 0, 0)

\* two inline excerpts, four more behind "show more" on the reviews page
PagePaginated ==
    Page(<< <<V1, V2>>, <<>> >>, << <<>>, <<H1, H2>> >>, "reviews", FALSE,
         << <<V3, V4, V5, V6>>, <<>> >>, 2, 2)

\* a marker-like page text inline, a CAPTCHA keyword on the hotel-details page
PageCaptcha ==
    Page(<< <<MarkerText, V1>>, <<V1, ShortText>> >>, << <<H1>>, <<H2>> >>,
         "hotel-details", TRUE, << <<>>, <<V2>> >>, 1, 0)

\* the inline excerpts reach five over two selectors
PageInlineFull ==
    Page(<< <<MarkerText, MarkerText3, V1>>, <<V2, V3, V4, V5>> >>,
         << <<H1>>, <<>> >>, "reviews", FALSE, << <<V6>> >>, 1, 0)

\* six inline matches under the first selector
PageInlineSix ==
    Page(<< <<V1, V2, V3, V4, V5, V6>>, <<>> >>, << <<>>, <<>> >>,
         "reviews", FALSE, <<>>, 0, 0)

\* one inline excerpt, a highlight tag without text under the first
\* selector and one with text under the second, a reviews page without
\* review cards
PageNoCards ==
    Page(<< <<V1>>, <<>> >>, << << <<>> >>, <<H1>> >>, "reviews", TRUE,
         << <<>> >>, 0, 0)

RichPages ==
    {PageEmpty, PagePaginated, PageCaptcha, PageInlineFull, PageInlineSix,
     PageNoCards}

\* one review card on the reviews page, none inline
PageOneCard ==
    Page(<< <<>> >>, << <<H1>> >>, "reviews", TRUE, << <<V6>> >>, 1, 0)

WalkPages == {PageInlineSix, PageOneCard}

RECURSIVE MaxLen(_)
MaxLen(lists) ==
    IF lists = <<>> THEN 0
    ELSE LET m == MaxLen(Tail(lists))
         IN IF Len(Head(lists)) > m THEN Len(Head(lists)) ELSE m

\* a "show more" control is clickable while cards remain to be rendered
ShowMoreClickable(page, n) == n < MaxLen(page.cards)

\* driver.find_elements on the detail page with n cards rendered
DetailElems(page, k, n) == Take(page.cards[k], n)

\* the Chrome arguments of _setup_driver (lines 104-116)
DriverArgs(h) ==
    <<"--disable-gpu", "--disable-dev-shm-usage", "--disable-extensions",
      "--no-sandbox", "--disable-blink-features=AutomationControlled",
      "--user-agent", "--window-size=1920,1080">>
    \o (IF h THEN <<"--headless=new">> ELSE <<>>)

(***************************************************************************)
(* extract_temporal_features (lines 122-157).  A string is the sequence of *)
(* its characters.  A date is <<year, month, day>>; the clock reading      *)
(* datetime.now() is [date, secs], secs the seconds since midnight.  The   *)
(* years are four-digit years, which strftime('%Y') prints as they are.    *)
(***************************************************************************)
Digits == <<"0", "1", "2", "3", "4", "5", "6", "7", "8", "9">>

IsDigit(c) == c \in Range(Digits)

\* int() of one digit
DigitVal(c) == CHOOSE k \in 0..9 : Digits[k + 1] = c

\* int() of a run of digits, blanks skipped (the day " 5" of %d)
RECURSIVE IntOf(_)
IntOf(cs) ==
    IF cs = <<>> THEN 0
    ELSE IF Last(cs) = " " THEN IntOf(SubSeq(cs, 1, Len(cs) - 1))
    ELSE 10 * IntOf(SubSeq(cs, 1, Len(cs) - 1)) + DigitVal(Last(cs))

\* the decimal digits of n, zero-padded to width w
RECURSIVE Pad(_, _)
Pad(n, w) ==
    IF w = 0 THEN <<>> ELSE Append(Pad(n \div 10, w - 1), Digits[(n % 10) + 1])

\* calendar: datetime's _is_leap, _days_in_month, _ymd2ord and weekday
IsLeap(y) == y % 4 = 0 /\ (y % 100 # 0 \/ y % 400 = 0)

DaysInMonth(y, m) ==
    IF m = 2 THEN (IF IsLeap(y) THEN 29 ELSE 28)
    ELSE IF m \in {4, 6, 9, 11} THEN 30
    ELSE 31

RECURSIVE DaysBeforeMonth(_, _)
DaysBeforeMonth(y, m) ==
    IF m = 1 THEN 0 ELSE DaysBeforeMonth(y, m - 1) + DaysInMonth(y, m - 1)

Ordinal(date) ==
    LET y == date[1] - 1
    IN y * 365 + y \div 4 - y \div 100 + y \div 400
       + DaysBeforeMonth(date[1], date[2]) + date[3]

ValidDate(date) ==
    /\ date[1] \in 1..9999
    /\ date[2] \in 1..12
    /\ date[3] \in 1..DaysInMonth(date[1], date[2])

DayNames ==
    <<"Monday", "Tuesday", "Wednesday", "Thursday", "Friday", "Saturday",
      "Sunday">>

\* strftime('%A')
DayName(date) == DayNames[((Ordinal(date) + 6) % 7) + 1]

\* the directive %m of strptime, (1[0-2]|0[1-9]|[1-9]): the lengths of the
\* prefixes of s it matches, in the order the alternatives are tried
MonthLens(s) ==
    (IF /\ Len(s) >= 2
        /\ \/ s[1] = "1" /\ s[2] \in {"0", "1", "2"}
           \/ s[1] = "0" /\ IsDigit(s[2]) /\ s[2] # "0"
     THEN <<2>> ELSE <<>>)
    \o (IF Len(s) >= 1 /\ IsDigit(s[1]) /\ s[1] # "0" THEN <<1>> ELSE <<>>)

\* the directive %d, (3[0-1]|[1-2]\d|0[1-9]|[1-9]| [1-9])
DayLens(s) ==
    (IF /\ Len(s) >= 2
        /\ \/ s[1] = "3" /\ s[2] \in {"0", "1"}
           \/ s[1] \in {"1", "2"} /\ IsDigit(s[2])
           \/ s[1] = "0" /\ IsDigit(s[2]) /\ s[2] # "0"
     THEN <<2>> ELSE <<>>)
    \o (IF Len(s) >= 1 /\ IsDigit(s[1]) /\ s[1] # "0" THEN <<1>> ELSE <<>>)
    \o (IF Len(s) >= 2 /\ s[1] = " " /\ IsDigit(s[2]) /\ s[2] # "0"
        THEN <<2>> ELSE <<>>)

\* the directive %Y, (\d\d\d\d)
YearMatches(s) == Len(s) >= 4 /\ \A k \in 1..4 : IsDigit(s[k])

\* the ways %m%d matches a prefix of s, in backtracking order
MonthDaySplits(s) ==
    LET for(lm) == [k \in 1..Len(DayLens(Drop(s, lm))) |->
                       <<lm, DayLens(Drop(s, lm))[k]>>]
        ms == MonthLens(s)
    IN IF ms = <<>> THEN <<>>
       ELSE IF Len(ms) = 1 THEN for(ms[1])
       ELSE for(ms[1]) \o for(ms[2])

\* datetime.strptime(s, '%m%d%Y'): the date, or None for ValueError (no
\* match, unconverted data, or a day the month does not have)
strptime_mdY(s) ==
    LET fits == SelectSeq(MonthDaySplits(s),
                          LAMBDA c : YearMatches(Drop(s, c[1] + c[2])))
    IN IF fits = <<>> THEN None
       ELSE LET lm == fits[1][1]
                ld == fits[1][2]
                date == <<IntOf(SubSeq(s, lm + ld + 1, lm + ld + 4)),
                          IntOf(SubSeq(s, 1, lm)),
                          IntOf(SubSeq(s, lm + 1, lm + ld))>>
            IN IF Len(s) # lm + ld + 4 THEN None
               ELSE IF ~ValidDate(date) THEN None
               ELSE date

\* strftime('%Y-%m-%d')
strftime_Ymd(date) ==
    Pad(date[1], 4) \o <<"-">> \o Pad(date[2], 2) \o <<"-">> \o Pad(date[3], 2)

\* datetime.strptime(s, '%Y-%m-%d') on a string of strftime_Ymd
strptime_Ymd(s) ==
    IF /\ Len(s) = 10
       /\ s[5] = "-"
       /\ s[8] = "-"
       /\ \A k \in {1, 2, 3, 4, 6, 7, 9, 10} : IsDigit(s[k])
       /\ ValidDate(<<IntOf(SubSeq(s, 1, 4)), IntOf(SubSeq(s, 6, 7)),
                      IntOf(SubSeq(s, 9, 10))>>)
    THEN <<IntOf(SubSeq(s, 1, 4)), IntOf(SubSeq(s, 6, 7)),
           IntOf(SubSeq(s, 9, 10))>>
    ELSE None

\* lines 126-128: params.get(key, [''])[0]; parse_qs drops blank values
Param(query, key) == IF key \in DOMAIN query THEN query[key] ELSE <<>>

SecondsPerDay == 86400

\* line 138: (checkin_dt - current_date).days; a timedelta is normalised to
\* 0 <= seconds < 86400, so days is the floor of the difference in days
DaysBetween(date, now) ==
    LET secs == (Ordinal(date) - Ordinal(now.date)) * SecondsPerDay - now.secs
    IN IF secs >= 0 THEN secs \div SecondsPerDay
       ELSE -((-secs + SecondsPerDay - 1) \div SecondsPerDay)

\* lines 141-148 with the table shifted by one month
SeasonShifted(month) ==
    IF month \in {1, 2, 3} THEN "Winter"
    ELSE IF month \in {4, 5, 6} THEN "Spring"
    ELSE IF month \in {7, 8, 9} THEN "Summer"
    ELSE "Autumn"

\* lines 141-148
Season(month) ==
    IF month \in {12, 1, 2} THEN "Winter"
    ELSE IF month \in {3, 4, 5} THEN "Spring"
    ELSE IF month \in {6, 7, 8} THEN "Summer"
    ELSE "Autumn"

Temporal(search, checkin, checkout, days, dow, season) ==
    [search_date |-> search, checkin_date |-> checkin,
     checkout_date |-> checkout, days_ahead |-> days, day_of_week |-> dow,
     season |-> season]

\* the function without its handler: the exception reaches the caller
TemporalUncaught(now) == [raised |-> "ValueError"]

\* lines 154-157: the handler of the function
TemporalCaught(now) ==
    Temporal(strftime_Ymd(now.date), <<>>, <<>>, 0, "", "")

extract_temporal_features(query, now) ==
    LET checkin == Param(query, "checkin")
        checkout == Param(query, "checkout")
        given == checkin # <<>> /\ checkout # <<>>
    IN IF given /\ (strptime_mdY(checkin) = None \/ strptime_mdY(checkout) = None)
       THEN TemporalCaught(now)                        \* lines 130-131 raise
       ELSE LET checkin_date == IF given
                                THEN strftime_Ymd(strptime_mdY(checkin))
                                ELSE <<>>
                checkout_date == IF given
                                 THEN strftime_Ymd(strptime_mdY(checkout))
                                 ELSE <<>>
                search_date == strftime_Ymd(now.date)
            IN IF checkin_date = <<>>
               THEN Temporal(search_date, checkin_date, checkout_date, 0, "", "")
               ELSE IF strptime_Ymd(checkin_date) = None
               THEN TemporalCaught(now)                \* line 137 raises
               ELSE LET checkin_dt == strptime_Ymd(checkin_date)
                    IN Temporal(search_date, checkin_date, checkout_date,
                                DaysBetween(checkin_dt, now),
                                DayName(checkin_dt), Season(checkin_dt[2]))

(***************************************************************************)
(* Listing fields and extract_numeric_features (lines 617-622, 561-577).   *)
(* A field text is the sequence of its characters.  A float is the exact   *)
(* rational <<numerator, denominator>> and an int n the tuple <<n>>, which *)
(* None, the empty tuple, compares with.                                   *)
(***************************************************************************)
\* the characters of the literal of line 618 as Python reads the source:
\* U+00E2, U+201A, U+00B9 (the UTF-8 bytes of the rupee sign read as cp1252)
RupeeLiteral == <<"U+00E2", "U+201A", "U+00B9">>

\* the rupee sign U+20B9 as a page displays it
RupeeSign == "U+20B9"

\* str.startswith
StartsWith(text, prefix) ==
    Len(text) >= Len(prefix) /\ SubSeq(text, 1, Len(prefix)) = prefix

\* lines 617-622: the price text and the currency of the row
ListingPrice(price) ==
    IF StartsWith(price, RupeeLiteral)
    THEN [price |-> Tail(price), currency |-> "INR"]
    ELSE [price |-> price, currency |-> ""]

\* str.replace(',', '')
RemoveCommas(text) == SelectSeq(text, LAMBDA c : c # ",")

\* the longest prefix of text with characters in class
RECURSIVE TakeWhile(_, _)
TakeWhile(text, class) ==
    IF text = <<>> \/ Head(text) \notin class THEN <<>>
    ELSE <<Head(text)>> \o TakeWhile(Tail(text), class)

\* text from its first character in class on (<<>> when there is none)
RECURSIVE DropUntil(_, _)
DropUntil(text, class) ==
    IF text = <<>> \/ Head(text) \in class THEN text
    ELSE DropUntil(Tail(text), class)

DigitChars == Range(Digits)

\* re.findall(r'[\d,]+', text)[0], <<>> when nothing matches
FirstDigitCommaRun(text) ==
    TakeWhile(DropUntil(text, DigitChars \cup {","}), DigitChars \cup {","})

\* re.findall(r'\d+', text)[0], <<>> when nothing matches
FirstDigitRun(text) == TakeWhile(DropUntil(text, DigitChars), DigitChars)

\* re.findall(r'\d+\.?\d*', text)[0] as <<integer digits, point, fraction
\* digits>>, <<>> when nothing matches
FirstDecimal(text) ==
    LET from == DropUntil(text, DigitChars)
        int == TakeWhile(from, DigitChars)
        after == Drop(from, Len(int))
        point == after # <<>> /\ Head(after) = "."
        frac == IF point THEN TakeWhile(Tail(after), DigitChars)
                ELSE TakeWhile(after, DigitChars)
    IN IF int = <<>> THEN <<>> ELSE <<int, point, frac>>

RECURSIVE Pow10(_)
Pow10(n) == IF n = 0 THEN 1 ELSE 10 * Pow10(n - 1)

\* float() of digits "." digits
Decimal(int, frac) ==
    Rat(IntOf(int) * Pow10(Len(frac)) + IntOf(frac), Pow10(Len(frac)))

\* lines 564-565; float() of a run with a comma raises ValueError ("error")
price_numeric(price) ==
    LET run == FirstDigitCommaRun(RemoveCommas(price))
    IN IF run = <<>> THEN None
       ELSE IF "," \in Range(run) THEN "error"
       ELSE Decimal(run, <<>>)

\* lines 566-567
review_count_numeric(review_count) ==
    LET run == FirstDigitRun(RemoveCommas(review_count))
    IN IF run = <<>> THEN None ELSE <<IntOf(run)>>

\* lines 568-569
rating_numeric(user_rating) ==
    LET m == FirstDecimal(user_rating)
    IN IF m = <<>> THEN None ELSE Decimal(m[1], m[3])

\* lines 570-571
star_rating_numeric(star_rating) ==
    IF star_rating # <<>> THEN <<Len(star_rating)>> ELSE None

(***************************************************************************)
(* Records.                                                                *)
(***************************************************************************)
\* ReviewData(...) as built at lines 339-347, 387-395 and 507-515;
\* review_id f"{hotel_id}_review_{n}" is the pair <<hotel_id, n>>
ReviewData(hid, n, text) ==
    [review_id |-> <<hid, n>>, reviewer_name |-> "Anonymous",
     review_text |-> text, review_rating |-> "", review_date |-> "",
     review_helpful_count |-> "", hotel_id |-> hid,
     review_sentiment_score |-> None]

IsValidReview(r) == ~StartsWithMarker(r)

\* lines 572-574 without the filter on the placeholder marker (and the
\* numeric fields left as they are)
extract_numeric_features_unfiltered(hotel_data) ==
    [hotel_data EXCEPT !.avg_sentiment_score =
        calculate_sentiment_score(hotel_data.recent_reviews)]

\* extract_numeric_features, lines 561-577; an exception (line 575) leaves
\* the fields not yet assigned as they are
extract_numeric_features(hotel_data) ==
    IF price_numeric(hotel_data.price) = "error" THEN hotel_data
    ELSE [hotel_data EXCEPT
            !.price_numeric = price_numeric(hotel_data.price),
            !.review_count_numeric =
                review_count_numeric(hotel_data.review_count),
            !.rating_numeric = rating_numeric(hotel_data.user_rating),
            !.star_rating_numeric =
                star_rating_numeric(hotel_data.star_rating),
            !.avg_sentiment_score =
                calculate_sentiment_score(
                    SelectSeq(hotel_data.recent_reviews, IsValidReview))]

\* HotelData(...) of lines 640-663: the identifier, the listing texts and
\* the harvest; the numeric fields are None until line 664
HotelFields(hid, price, currency, count, rating, stars, recent, tags) ==
    [hotel_id |-> hid, price |-> price, currency |-> currency,
     review_count |-> count, user_rating |-> rating,
     star_rating |-> stars, recent_reviews |-> recent,
     review_highlights |-> tags, price_numeric |-> None,
     review_count_numeric |-> None, rating_numeric |-> None,
     star_rating_numeric |-> None, avg_sentiment_score |-> None]

\* HotelData(...) of a row of the pages above, which show no price, count,
\* rating or stars (_safe_extract gives "" for each)
HotelData(hid, recent, highlights) ==
    HotelFields(hid, <<>>, "", <<>>, <<>>, <<>>, recent, highlights)

(***************************************************************************)
(* extract_hotel_reviews: inline collection (lines 170-219).               *)
(* The result of a loop is [revs, ok]; ok is FALSE when a lookup raised an *)
(* exception other than NoSuchElementException, which leaves the loop.     *)
(***************************************************************************)
\* lines 186-189 over the elements els
RECURSIVE AddExcerpts(_, _)
AddExcerpts(els, acc) ==
    IF els = <<>> THEN acc
    ELSE AddExcerpts(Tail(els),
            IF CharLen(Head(els)) > min_text_len /\ Head(els) \notin Range(acc)
            THEN Append(acc, Head(els))
            ELSE acc)

\* a selector loop that stops at the first selector with matched elements
RECURSIVE CollectReviewsFirstMatch(_, _, _, _)
CollectReviewsFirstMatch(lists, k, acc, failAt) ==
    IF k > Len(lists) THEN [revs |-> acc, ok |-> TRUE]
    ELSE IF k = failAt THEN [revs |-> acc, ok |-> FALSE]
    ELSE IF lists[k] # <<>>
    THEN [revs |-> AddExcerpts(Take(lists[k], min_reviews), acc), ok |-> TRUE]
    ELSE CollectReviewsFirstMatch(lists, k + 1, acc, failAt)

\* lines 182-194 from selector k on; the lookup of selector failAt raises
RECURSIVE CollectReviews(_, _, _, _)
CollectReviews(lists, k, acc, failAt) ==
    IF k > Len(lists) THEN [revs |-> acc, ok |-> TRUE]
    ELSE IF k = failAt THEN [revs |-> acc, ok |-> FALSE]
    ELSE LET acc2 == AddExcerpts(Take(lists[k], min_reviews), acc)
         IN IF Len(acc2) >= min_reviews
            THEN [revs |-> acc2, ok |-> TRUE]
            ELSE CollectReviews(lists, k + 1, acc2, failAt)

\* lines 211-214 over the elements els
RECURSIVE AddHighlights(_, _)
AddHighlights(els, acc) ==
    IF els = <<>> THEN acc
    ELSE AddHighlights(Tail(els),
            IF /\ Head(els) # <<>>
               /\ CharLen(Head(els)) < max_highlight_len
               /\ Head(els) \notin Range(acc)
            THEN Append(acc, Head(els))
            ELSE acc)

\* lines 207-219 from selector k on
RECURSIVE CollectHighlights(_, _, _, _)
CollectHighlights(lists, k, acc, failAt) ==
    IF k > Len(lists) THEN [revs |-> acc, ok |-> TRUE]
    ELSE IF k = failAt THEN [revs |-> acc, ok |-> FALSE]
    ELSE LET acc2 == AddHighlights(Take(lists[k], max_highlights), acc)
         IN IF acc2 # <<>>
            THEN [revs |-> acc2, ok |-> TRUE]
            ELSE CollectHighlights(lists, k + 1, acc2, failAt)

(***************************************************************************)
(* _extract_detailed_reviews (lines 357-528).  The state of the extraction *)
(* is [reviews, recs, ok]: the local list, self.all_reviews, and ok FALSE  *)
(* once an exception has left for the handler of line 525.                 *)
(***************************************************************************)
\* lines 383-465 (meta) and 503-516 (~meta) over els from element j on;
\* at element failAt a lookup raises: the metadata lookup of an accepted
\* element (after reviews.append, before self.all_reviews.append) when
\* meta, elem.text otherwise
RECURSIVE ExtractCards(_, _, _, _, _, _)
ExtractCards(els, j, st, hid, failAt, meta) ==
    IF j > Len(els) THEN st
    ELSE IF j = failAt /\ ~meta THEN [st EXCEPT !.ok = FALSE]
    ELSE IF CharLen(els[j]) > min_text_len /\ els[j] \notin Range(st.reviews)
    THEN LET revs2 == Append(st.reviews, els[j])
         IN IF j = failAt
            THEN [reviews |-> revs2, recs |-> st.recs, ok |-> FALSE]
            ELSE ExtractCards(els, j + 1,
                    [reviews |-> revs2,
                     recs |-> Append(st.recs, ReviewData(hid, Len(revs2), els[j])),
                     ok |-> TRUE],
                    hid, failAt, meta)
    ELSE IF j = failAt THEN [st EXCEPT !.ok = FALSE]
    ELSE ExtractCards(els, j + 1, st, hid, failAt, meta)

\* the slice of the matched elements a selector loop walks:
\* review_elements[:min_reviews * 2] at line 383,
\* review_elements[len(reviews):min_reviews * 2] at line 503
FirstSlice(els, reviews) == Take(els, min_reviews * 2)

MoreSlice(els, reviews) == Drop(Take(els, min_reviews * 2), Len(reviews))

\* lines 379-470 (meta) and 499-520 (~meta) from selector k on; fk = 0: no
\* fault; <<fk, 0>>: find_elements of selector fk raises; <<fk, fj>>: element
\* fj of selector fk raises
RECURSIVE ExtractSelectors(_, _, _, _, _, _, _, _)
ExtractSelectors(page, n, k, st, hid, fk, fj, meta) ==
    IF k > Len(page.cards) THEN st
    ELSE IF k = fk /\ fj = 0 THEN [st EXCEPT !.ok = FALSE]
    ELSE LET els == IF meta THEN FirstSlice(DetailElems(page, k, n), st.reviews)
                    ELSE MoreSlice(DetailElems(page, k, n), st.reviews)
             st2 == ExtractCards(els, 1, st, hid, IF k = fk THEN fj ELSE 0, meta)
         IN IF ~st2.ok THEN st2
            ELSE IF Len(st2.reviews) >= min_reviews THEN st2
            ELSE ExtractSelectors(page, n, k + 1, st2, hid, fk, fj, meta)

\* where a lookup of a selector loop over the detail page may raise
FaultPoints(page) ==
    {<<0, 0>>} \cup
    {<<k, j>> : k \in 1..Len(page.cards), j \in 0..MaxLen(page.cards)}

(***************************************************************************)
(* extract_hotel_reviews: finalization (lines 332-355).                    *)
(***************************************************************************)
\* line 333
ValidReviews(recent) == SelectSeq(recent, IsValidReview)

\* the indices of "for i in range(len(valid_reviews), min_reviews)"
PlaceholderRange(v) == IF v < min_reviews THEN v..(min_reviews - 1) ELSE {}

\* lines 334-338: recent_reviews after the placeholders were appended
Backfill(recent) ==
    LET v == Len(ValidReviews(recent))
    IN recent \o [k \in 1..Cardinality(PlaceholderRange(v)) |->
                     PlaceholderText(v + k - 1)]

\* lines 339-347: self.all_reviews after the placeholders were appended
BackfillRecords(recs, recent, hid) ==
    LET v == Len(ValidReviews(recent))
    IN recs \o [k \in 1..Cardinality(PlaceholderRange(v)) |->
                   ReviewData(hid, v + k, PlaceholderText(v + k - 1))]

\* the return without the loop of lines 351-353
AssignSentimentSkipped(recs, hid, avg) == recs

\* the loop of line 351 without the test of line 352
AssignSentimentAll(recs, hid, avg) ==
    [k \in 1..Len(recs) |-> [recs[k] EXCEPT !.review_sentiment_score = avg]]

\* lines 350-353
AssignSentiment(recs, hid, avg) ==
    [k \in 1..Len(recs) |->
        IF recs[k].hotel_id = hid
        THEN [recs[k] EXCEPT !.review_sentiment_score = avg]
        ELSE recs[k]]

\* the return of line 355 without its slice
ReturnedUnsliced(recent) == recent

\* line 355: recent_reviews[:min_reviews]
ReturnedReviews(recent) == Take(recent, min_reviews)

(***************************************************************************)
(* State.                                                                  *)
(***************************************************************************)
VARIABLES
    headless,          \* __init__(headless=...)
    scrape_reviews,    \* self.scrape_reviews
    max_hotels,        \* scrape_hotel_data(max_hotels=...)
    site,              \* the rows of the listing page, site[i + 1] for row i
    pc,                \* the position of the (single) thread of control
    i,                 \* the row index of scrape_hotel_data's loop
    hotels_data,       \* scrape_hotel_data: hotels_data
    all_reviews,       \* self.all_reviews
    hotel_id,          \* the identifier of the active row
    recent_reviews,    \* extract_hotel_reviews: recent_reviews, then its result
    review_highlights, \* extract_hotel_reviews: review_highlights
    valid_reviews,     \* extract_hotel_reviews: valid_reviews (line 333)
    attempt,           \* extract_hotel_reviews: attempt
    main_window,       \* extract_hotel_reviews: main_window
    review_url,        \* extract_hotel_reviews: review_url
    windows,           \* driver.window_handles
    current,           \* the active browsing context of the driver
    captcha_found,     \* the condition of line 265 in this visit
    reviews,           \* _extract_detailed_reviews: reviews
    shown,             \* the number of review cards the detail page renders
    round,             \* _extract_detailed_reviews: attempt (line 473)
    faults,            \* the number of calls that raised out of the blue so far
    log,               \* the last warning or error handed to self.logger
    input,             \* the arguments of a function that is called on its own
    output             \* what that function has returned

vars ==
    <<headless, scrape_reviews, max_hotels, site, pc, i, hotels_data,
      all_reviews, hotel_id, recent_reviews, review_highlights, valid_reviews,
      attempt, main_window, review_url, windows, current, captcha_found,
      reviews, shown, round, faults, log, input, output>>

\* a call of one function on its own
unit == <<input, output>>

config == <<headless, scrape_reviews, max_hotels, site>>

walker == <<i, hotels_data>>

driver == <<windows, current>>

detail == <<reviews, shown, round>>

harvest ==
    <<hotel_id, recent_reviews, review_highlights, valid_reviews, attempt,
      main_window, review_url, captcha_found>>

\* the page of the active row
RowPage == IF i + 1 \in DOMAIN site THEN site[i + 1] ELSE NoRow

\* the handle window.open gives the new tab
NewHandle ==
    CHOOSE h \in 1..(Len(windows) + 1) : h \notin Range(windows)

Remove(s, h) == SelectSeq(s, LAMBDA w : w # h)

\* a page-controller call raises a WebDriverException out of the blue
Fault == faults < MaxFaults /\ faults' = faults + 1

NoFault == faults' = faults

InitState ==
    /\ pc = "start"
    /\ i = 0
    /\ hotels_data = <<>>
    /\ all_reviews = <<>>
    /\ hotel_id = None
    /\ recent_reviews = <<>>
    /\ review_highlights = <<>>
    /\ valid_reviews = <<>>
    /\ attempt = 0
    /\ main_window = Unbound
    /\ review_url = ""
    /\ windows = <<Listing>>
    /\ current = Listing
    /\ captcha_found = FALSE
    /\ reviews = <<>>
    /\ shown = 0
    /\ round = 0
    /\ faults = 0
    /\ log = ""

\* no function is called on its own
NoUnit == input = None /\ output = None

\* one harvest over a listing of rich pages
Init ==
    /\ headless \in BOOLEAN
    /\ scrape_reviews \in BOOLEAN
    /\ max_hotels \in 0..MaxRows
    /\ site \in [1..MaxRows -> RichPages \cup {NoRow}]
    /\ InitState
    /\ NoUnit

\* a walk over several rows
InitWalk ==
    /\ headless \in BOOLEAN
    /\ scrape_reviews \in BOOLEAN
    /\ max_hotels \in 0..MaxHotels
    /\ site \in [1..MaxHotels -> WalkPages \cup {NoRow}]
    /\ InitState
    /\ NoUnit

(***************************************************************************)
(* scrape_hotel_data (lines 579-674).                                      *)
(***************************************************************************)
\* the locals of extract_hotel_reviews and _extract_detailed_reviews are
\* dead outside the call
ResetRow ==
    /\ hotel_id' = None
    /\ recent_reviews' = <<>>
    /\ review_highlights' = <<>>
    /\ valid_reviews' = <<>>
    /\ attempt' = 0
    /\ main_window' = Unbound
    /\ review_url' = ""
    /\ captcha_found' = FALSE
    /\ reviews' = <<>>
    /\ shown' = 0
    /\ round' = 0

\* the handler of line 668 with "break" in place of "continue"
SkipRowAbort ==
    /\ log' = "row_error"
    /\ i' = i
    /\ pc' = "done"

\* "except Exception" of line 668: the row is skipped, the walk goes on
SkipRow ==
    /\ log' = "row_error"
    /\ i' = i + 1
    /\ pc' = "locate"

\* lines 584-588 without the handler of line 671: the fault leaves
\* scrape_hotel_data
LoadPageUncaught ==
    /\ pc = "start"
    /\ \/ /\ Fault
          /\ pc' = "raised"
          /\ log' = log
       \/ /\ NoFault
          /\ pc' = "locate"
          /\ log' = log
    /\ UNCHANGED <<config, unit, walker, all_reviews, harvest, driver, detail>>

\* lines 584-588: driver.get; a fault goes to the handler of line 671
LoadPage ==
    /\ pc = "start"
    /\ \/ /\ Fault
          /\ pc' = "done"
          /\ log' = "run_error"
       \/ /\ NoFault
          /\ pc' = "locate"
          /\ log' = log
    /\ UNCHANGED <<config, unit, walker, all_reviews, harvest, driver, detail>>

\* "continue" in place of the "break" of line 599
NotFoundContinue ==
    /\ log' = "not_found"
    /\ i' = i + 1
    /\ pc' = "locate"

\* lines 597-599: TimeoutException, the walk stops
NotFound ==
    /\ log' = "not_found"
    /\ pc' = "done"
    /\ i' = i

\* lines 589-599: the wait for row i.  WebDriverWait.until turns only a
\* missing element into TimeoutException; any other exception (a closed
\* window among them) reaches line 668.
LocateRow ==
    /\ pc = "locate"
    /\ IF i >= max_hotels
       THEN /\ pc' = "done"
            /\ UNCHANGED <<i, log, faults>>
       ELSE IF current = Closed
       THEN SkipRow /\ NoFault
       ELSE \/ SkipRow /\ Fault
            \/ /\ NoFault
               /\ IF current = Listing /\ RowPage.present
                  THEN /\ pc' = "fields"
                       /\ UNCHANGED <<i, log>>
                  ELSE NotFound
    /\ UNCHANGED <<config, unit, hotels_data, all_reviews, harvest, driver, detail>>

\* an identifier made of the capture time alone
HotelIdTimeOnly(row, t) == <<0, t>>

\* line 601: f"hotel_{i}_{int(time.time())}" as the pair <<i, time>>
HotelId(row, t) == <<row, t>>

\* lines 600-636: the listing fields and the row identifier
ExtractFields ==
    /\ pc = "fields"
    /\ \/ /\ Fault
          /\ SkipRow
          /\ UNCHANGED <<hotel_id>>
       \/ /\ NoFault
          /\ \E t \in 0..MaxTime : hotel_id' = HotelId(i, t)
          /\ pc' = "inline"
          /\ UNCHANGED <<i, log>>
    /\ UNCHANGED <<config, unit, hotels_data, all_reviews, recent_reviews,
                   review_highlights, valid_reviews, attempt, main_window,
                   review_url, captcha_found, driver, detail>>

(***************************************************************************)
(* extract_hotel_reviews (lines 159-355).                                  *)
(***************************************************************************)
\* "for attempt in range(max_attempts)" without the step to the next attempt
SameAttempt(a) == a

\* line 224: the step of "for attempt in range(max_attempts)"
NextAttempt(a) == a + 1

\* the detail harvest whatever self.scrape_reviews says
NeedMoreIgnoringFlag(recent) == Len(recent) < min_reviews

\* line 222
NeedMore(recent) == scrape_reviews /\ Len(recent) < min_reviews

\* lines 168-222: inline excerpts and highlights of the row; f = 0: no
\* fault, otherwise the f-th selector lookup raises and line 329 catches it
CollectInline ==
    /\ pc = "inline"
    /\ \E f \in 0..(Len(RowPage.inline) + Len(RowPage.highlights)) :
        LET nr == Len(RowPage.inline)
            r == CollectReviews(RowPage.inline, 1, <<>>,
                                IF f <= nr THEN f ELSE 0)
            h == IF r.ok
                 THEN CollectHighlights(RowPage.highlights, 1, <<>>,
                                        IF f > nr THEN f - nr ELSE 0)
                 ELSE [revs |-> <<>>, ok |-> FALSE]
        IN /\ IF f = 0 THEN NoFault ELSE Fault
           /\ recent_reviews' = r.revs
           /\ review_highlights' = h.revs
           /\ IF r.ok /\ h.ok
              THEN /\ pc' = IF NeedMore(r.revs) THEN "attempt" ELSE "finalize"
                   /\ log' = log
              ELSE /\ pc' = "finalize"
                   /\ log' = "harvest_error"
    /\ UNCHANGED <<config, unit, walker, all_reviews, hotel_id, valid_reviews,
                   attempt, main_window, review_url, captcha_found, driver,
                   detail>>

\* lines 224-255: the head of the attempt loop, the link and main_window
ResolveLink ==
    /\ pc = "attempt"
    /\ IF attempt >= max_attempts
       THEN /\ pc' = "finalize"
            /\ UNCHANGED <<attempt, main_window, review_url, log, faults>>
       ELSE \/ /\ Fault                \* a lookup of lines 241-255 raises
               /\ pc' = "handler"
               /\ UNCHANGED <<attempt, main_window, review_url, log>>
            \/ /\ NoFault
               /\ RowPage.link = ""    \* line 250: continue
               /\ log' = "no_link"
               /\ attempt' = NextAttempt(attempt)
               /\ pc' = "attempt"
               /\ UNCHANGED <<main_window, review_url>>
            \/ /\ NoFault
               /\ RowPage.link # ""
               /\ review_url' = RowPage.link
               /\ main_window' = current
               /\ pc' = "open"
               /\ UNCHANGED <<attempt, log>>
    /\ UNCHANGED <<config, unit, walker, all_reviews, hotel_id, recent_reviews,
                   review_highlights, valid_reviews, captcha_found, driver,
                   detail>>

\* line 258: window.open in a new tab
OpenTab ==
    /\ pc = "open"
    /\ \/ /\ Fault
          /\ pc' = "handler"
          /\ UNCHANGED windows
       \/ /\ NoFault
          /\ windows' = Append(windows, NewHandle)
          /\ pc' = "switch"
    /\ UNCHANGED <<config, unit, walker, all_reviews, harvest, current, detail, log>>

\* line 260: switch_to.window(window_handles[-1]); the new page renders
SwitchToTab ==
    /\ pc = "switch"
    /\ \/ /\ Fault
          /\ pc' = "handler"
          /\ UNCHANGED <<current, shown>>
       \/ /\ NoFault
          /\ current' = Last(windows)
          /\ shown' = RowPage.initial
          /\ pc' = "captcha"
    /\ UNCHANGED <<config, unit, walker, all_reviews, harvest, windows, reviews,
                   round, log>>

\* lines 271-273: the abort of a headless session; an exception of close or
\* switch_to is caught at line 274 and the harvest goes on
CaptchaAbort ==
    \/ /\ Fault
       /\ log' = "captcha_check_error"
       /\ pc' = "tab"
       /\ UNCHANGED <<windows, current>>
    \/ /\ windows' = Remove(windows, current)
       /\ \/ /\ Fault
             /\ log' = "captcha_check_error"
             /\ current' = Closed
             /\ pc' = "tab"
          \/ /\ NoFault
             /\ log' = "captcha_headless"
             /\ current' = main_window
             /\ pc' = "assemble"

\* line 267: self.driver.options.args.count("--headless")
HeadlessCount == Count(DriverArgs(headless), "--headless")

\* lines 262-276: the CAPTCHA check.  Every exception in it is caught at
\* line 274, after which the harvest goes on.
CaptchaCheck ==
    /\ pc = "captcha"
    /\ \/ /\ Fault                          \* page_source raises
          /\ log' = "captcha_check_error"
          /\ pc' = "tab"
          /\ UNCHANGED <<captcha_found, windows, current>>
       \/ /\ NoFault
          /\ ~RowPage.captcha
          /\ pc' = "tab"
          /\ UNCHANGED <<captcha_found, windows, current, log>>
       \/ /\ RowPage.captcha
          /\ captcha_found' = TRUE
          /\ \/ /\ Fault                    \* driver.options raises
                /\ log' = "captcha_check_error"
                /\ pc' = "tab"
                /\ UNCHANGED <<windows, current>>
             \/ IF HeadlessCount = 0
                THEN /\ NoFault
                     /\ log' = "captcha"    \* time.sleep(30)
                     /\ pc' = "tab"
                     /\ UNCHANGED <<windows, current>>
                ELSE CaptchaAbort
    /\ UNCHANGED <<config, unit, walker, all_reviews, hotel_id, recent_reviews,
                   review_highlights, valid_reviews, attempt, main_window,
                   review_url, detail>>

\* lines 277-305: the reviews tab of a hotel-details page, then five
\* scrolls; a click or a script that raises leaves for line 319
ScrollDetail ==
    /\ pc = "tab"
    /\ \/ /\ Fault
          /\ pc' = "handler"
       \/ /\ NoFault
          /\ pc' = "extract"
    /\ UNCHANGED <<config, unit, walker, all_reviews, harvest, driver, detail, log>>

\* lines 359-470: the first extraction on the detail page.  The wait for
\* the body or a lookup may raise; line 525 catches it and the reviews
\* collected so far are returned.
ExtractDetailed ==
    /\ pc = "extract"
    /\ \E f \in FaultPoints(RowPage) :
        LET st == ExtractSelectors(RowPage, shown, 1,
                      [reviews |-> <<>>, recs |-> all_reviews, ok |-> TRUE],
                      hotel_id, f[1], f[2], TRUE)
        IN /\ IF st.ok THEN NoFault ELSE Fault
           /\ reviews' = st.reviews
           /\ all_reviews' = st.recs
           /\ pc' = IF st.ok THEN "paginate" ELSE "close"
           /\ log' = IF st.ok THEN log ELSE "detail_error"
    /\ round' = 0
    /\ UNCHANGED <<config, unit, walker, harvest, driver, shown>>

\* lines 473-523: one round of "show more".  A control is clicked when one
\* is clickable; the extraction is then re-run.
Paginate ==
    /\ pc = "paginate"
    /\ IF round >= show_more_attempts \/ Len(reviews) >= min_reviews
       THEN /\ pc' = "close"
            /\ UNCHANGED <<reviews, all_reviews, shown, round, log, faults>>
       ELSE \/ /\ Fault                      \* the click raises
               /\ pc' = "close"
               /\ log' = "detail_error"
               /\ UNCHANGED <<reviews, all_reviews, shown, round>>
            \/ /\ shown' = IF ShowMoreClickable(RowPage, shown)
                           THEN shown + RowPage.step
                           ELSE shown
               /\ \E f \in FaultPoints(RowPage) :
                   LET st == ExtractSelectors(RowPage, shown', 1,
                                 [reviews |-> reviews, recs |-> all_reviews,
                                  ok |-> TRUE],
                                 hotel_id, f[1], f[2], FALSE)
                   IN /\ IF st.ok THEN NoFault ELSE Fault
                      /\ reviews' = st.reviews
                      /\ all_reviews' = st.recs
                      /\ pc' = IF st.ok THEN "paginate" ELSE "close"
                      /\ log' = IF st.ok THEN log ELSE "detail_error"
               /\ round' = round + 1
    /\ UNCHANGED <<config, unit, walker, harvest, driver>>

\* lines 308-309: the reviews returned (reviews[:min_reviews], line 528)
\* that recent_reviews does not hold yet
Extended(recent, revs) ==
    recent \o SelectSeq(Take(revs, min_reviews),
                        LAMBDA r : r \notin Range(recent))

\* lines 308-317: extend recent_reviews, close the tab, switch back
CloseTab ==
    /\ pc = "close"
    /\ recent_reviews' = Extended(recent_reviews, reviews)
    /\ \/ /\ Fault                           \* driver.close() raises
          /\ pc' = "handler"
          /\ UNCHANGED <<windows, current, attempt>>
       \/ /\ windows' = Remove(windows, current)
          /\ \/ /\ Fault                     \* switch_to.window raises
                /\ current' = Closed
                /\ pc' = "handler"
                /\ UNCHANGED attempt
             \/ /\ NoFault
                /\ current' = main_window
                /\ IF Len(recent_reviews') >= min_reviews
                   THEN /\ pc' = "finalize"
                        /\ UNCHANGED attempt
                   ELSE /\ pc' = "attempt"
                        /\ attempt' = NextAttempt(attempt)
    /\ UNCHANGED <<config, unit, walker, all_reviews, hotel_id, review_highlights,
                   valid_reviews, main_window, review_url, captcha_found,
                   detail, log>>

\* lines 319-327: the handler of an attempt.  An exception in it (reading
\* current_window_handle of a closed window, the unbound main_window, close
\* or switch_to raising) leaves for line 329.
Handler ==
    /\ pc = "handler"
    /\ log' = "nav_error"
    /\ IF current = Closed \/ main_window = Unbound
       THEN /\ NoFault                       \* line 321 raises
            /\ pc' = "finalize"
            /\ UNCHANGED <<windows, current, attempt>>
       ELSE IF current = main_window
       THEN /\ NoFault
            /\ attempt' = NextAttempt(attempt)
            /\ pc' = "attempt"
            /\ UNCHANGED <<windows, current>>
       ELSE \/ /\ Fault                      \* driver.close() raises
               /\ pc' = "finalize"
               /\ UNCHANGED <<windows, current, attempt>>
            \/ /\ windows' = Remove(windows, current)
               /\ \/ /\ Fault                \* switch_to.window raises
                     /\ current' = Closed
                     /\ pc' = "finalize"
                     /\ UNCHANGED attempt
                  \/ /\ NoFault
                     /\ current' = main_window
                     /\ attempt' = NextAttempt(attempt)
                     /\ pc' = "attempt"
    /\ UNCHANGED <<config, unit, walker, all_reviews, hotel_id, recent_reviews,
                   review_highlights, valid_reviews, main_window, review_url,
                   captcha_found, detail>>

\* lines 332-355: placeholders, the sentiment of the row's reviews, return
Finalize ==
    /\ pc = "finalize"
    /\ valid_reviews' = ValidReviews(recent_reviews)
    /\ recent_reviews' = ReturnedReviews(Backfill(recent_reviews))
    /\ all_reviews' =
          AssignSentiment(BackfillRecords(all_reviews, recent_reviews, hotel_id),
                          hotel_id,
                          calculate_sentiment_score(valid_reviews'))
    /\ log' = IF Len(valid_reviews') < min_reviews THEN "placeholders" ELSE log
    /\ pc' = "assemble"
    /\ UNCHANGED <<config, unit, walker, hotel_id, review_highlights, attempt,
                   main_window, review_url, captcha_found, driver, detail,
                   faults>>

\* the scroll of line 666 ahead of the append of line 665: a scroll that
\* raises loses the record of the row
AssembleScrollFirst ==
    /\ pc = "assemble"
    /\ LET appended ==
              Append(hotels_data,
                     extract_numeric_features(
                         HotelData(hotel_id, recent_reviews,
                                   review_highlights)))
       IN IF current = Closed
          THEN NoFault /\ log' = "row_error" /\ hotels_data' = hotels_data
          ELSE \/ Fault /\ log' = "row_error" /\ hotels_data' = hotels_data
               \/ NoFault /\ log' = log /\ hotels_data' = appended
    /\ i' = i + 1
    /\ pc' = "locate"
    /\ ResetRow
    /\ UNCHANGED <<config, unit, all_reviews, driver>>

\* lines 640-667: the record, its numeric features, the append and the
\* scroll; a scroll that raises (a closed window among them) reaches line
\* 668 after the record was appended
Assemble ==
    /\ pc = "assemble"
    /\ hotels_data' =
          Append(hotels_data,
                 extract_numeric_features(
                     HotelData(hotel_id, recent_reviews, review_highlights)))
    /\ IF current = Closed
       THEN NoFault /\ log' = "row_error"
       ELSE \/ Fault /\ log' = "row_error"
            \/ NoFault /\ log' = log
    /\ i' = i + 1
    /\ pc' = "locate"
    /\ ResetRow
    /\ UNCHANGED <<config, unit, all_reviews, driver>>

Next ==
    \/ LoadPage
    \/ LocateRow
    \/ ExtractFields
    \/ CollectInline
    \/ ResolveLink
    \/ OpenTab
    \/ SwitchToTab
    \/ CaptchaCheck
    \/ ScrollDetail
    \/ ExtractDetailed
    \/ Paginate
    \/ CloseTab
    \/ Handler
    \/ Finalize
    \/ Assemble

Spec == Init /\ [][Next]_vars

SpecWalk == InitWalk /\ [][Next]_vars

(***************************************************************************)
(* Functions called on their own.  The pipeline is at rest; input holds    *)
(* the arguments and output the value returned.                            *)
(***************************************************************************)
\* the state of a scraper on which one function is called with one of args
UnitInit(position, args) ==
    /\ pc = position
    /\ input \in args
    /\ output = None
    /\ headless = FALSE
    /\ scrape_reviews = FALSE
    /\ max_hotels = 0
    /\ site = <<>>
    /\ i = 0
    /\ hotels_data = <<>>
    /\ all_reviews = <<>>
    /\ hotel_id = None
    /\ recent_reviews = <<>>
    /\ review_highlights = <<>>
    /\ valid_reviews = <<>>
    /\ attempt = 0
    /\ main_window = Unbound
    /\ review_url = ""
    /\ windows = <<Listing>>
    /\ current = Listing
    /\ captcha_found = FALSE
    /\ reviews = <<>>
    /\ shown = 0
    /\ round = 0
    /\ faults = 0
    /\ log = ""

\* what a call of a function on its own leaves alone
rest ==
    <<config, walker, all_reviews, harvest, driver, detail, faults, log, input>>

\* the value of a query parameter written as MMDDYYYY
Mdy(m, d, y) == Pad(m, 2) \o Pad(d, 2) \o Pad(y, 4)

Years == 2024..(2024 + MaxYears)

\* parameter values: every month, days that some months lack, and values
\* that are short, long, not numeric or empty
Checkins ==
    {Mdy(m, d, y) : m \in 1..12, d \in {1, 2, 29, 31}, y \in Years}
    \cup {<<"8", "0", "2", "2", "0", "2", "5">>,
          <<"1", "3", "0", "1", "2", "0", "2", "5">>,
          <<"0", "8", "0", "2", "2", "0", "2", "5", "5">>,
          <<"a", "b", "c", "d">>,
          <<>>}

Checkouts == {Mdy(12, 31, 2026), <<"x">>, <<>>}

\* the query of the URL: both parameters, or checkin alone, or neither
Queries ==
    {[checkin |-> c, checkout |-> o] : c \in Checkins, o \in Checkouts}
    \cup {[checkin |-> c] : c \in Checkins}
    \cup {[checkout |-> o] : o \in Checkouts}

\* readings of datetime.now(): midnight, just after it, just before the next
Nows == [date : {<<2025, 7, 1>>, <<2025, 12, 31>>}, secs : {0, 1, 86399}]

InitTemporal == UnitInit("temporal", [query : Queries, now : Nows])

\* one call of extract_temporal_features(url)
ExtractTemporal ==
    /\ pc = "temporal"
    /\ output' = extract_temporal_features(input.query, input.now)
    /\ pc' = "done"
    /\ UNCHANGED rest

NextTemporal == ExtractTemporal

SpecTemporal == InitTemporal /\ [][NextTemporal]_vars

\* the sequences over S of length at most n
SeqsUpTo(S, n) == UNION {[1..k -> S] : k \in 0..n}

\* tokens: a positive word with a capital, a negative word, a neutral word
Vocabulary == {"Great", "bad", "room"}

\* short texts ("" among them) and three page texts of six words
SentimentTexts == SeqsUpTo(Vocabulary, MaxWords) \cup {V1, V2, V6}

InitSentiment == UnitInit("sentiment", SeqsUpTo(SentimentTexts, MaxTexts))

\* one call of calculate_sentiment_score(reviews)
ScoreSentiment ==
    /\ pc = "sentiment"
    /\ output' = calculate_sentiment_score(input)
    /\ pc' = "done"
    /\ UNCHANGED rest

NextSentiment == ScoreSentiment

SpecSentiment == InitSentiment /\ [][NextSentiment]_vars

\* the characters of a text without a rupee sign
Chars(str) ==
    CASE str = "5,499" -> <<"5", ",", "4", "9", "9">>
      [] str = "5,499.75" -> <<"5", ",", "4", "9", "9", ".", "7", "5">>
      [] str = "1,234" -> <<"1", ",", "2", "3", "4">>
      [] str = "0.75" -> <<"0", ".", "7", "5">>
      [] str = "0" -> <<"0">>
      [] str = "N/A" -> <<"N", "/", "A">>
      [] str = "2,048 reviews" ->
            <<"2", ",", "0", "4", "8", " ", "r", "e", "v", "i", "e", "w", "s">>
      [] str = "(312)" -> <<"(", "3", "1", "2", ")">>
      [] str = "No reviews" ->
            <<"N", "o", " ", "r", "e", "v", "i", "e", "w", "s">>
      [] str = "0 reviews" -> <<"0", " ", "r", "e", "v", "i", "e", "w", "s">>
      [] str = "4.3 out of 5" ->
            <<"4", ".", "3", " ", "o", "u", "t", " ", "o", "f", " ", "5">>
      [] str = "4.3" -> <<"4", ".", "3">>
      [] str = "5" -> <<"5">>
      [] str = "4." -> <<"4", ".">>
      [] str = "0.0" -> <<"0", ".", "0">>
      [] str = "Very Good" -> <<"V", "e", "r", "y", " ", "G", "o", "o", "d">>
      [] str = "***" -> <<"*", "*", "*">>
      [] str = "4" -> <<"4">>
      [] str = "" -> <<>>

\* texts of the price element: with the rupee sign, with the characters of
\* the literal of line 618, and without a sign
PriceTexts ==
    {<<RupeeSign>> \o Chars("5,499"), RupeeLiteral \o Chars("5,499"),
     <<RupeeSign>> \o Chars("5,499.75"), <<RupeeSign>>}
    \cup {Chars(str) : str \in {"5,499", "5,499.75", "1,234", "0.75", "0",
                                "N/A", ""}}

ReviewCountTexts ==
    {Chars(str) : str \in {"2,048 reviews", "(312)", "No reviews",
                           "0 reviews", ""}}

RatingTexts ==
    {Chars(str) : str \in {"4.3 out of 5", "4.3", "5", "4.", "0.0", "Very Good",
                           ""}}

StarTexts == {Chars(str) : str \in {"***", "4", ""}}

InitNumeric ==
    UnitInit("listing", [price : PriceTexts, review_count : ReviewCountTexts,
                         user_rating : RatingTexts, star_rating : StarTexts])

\* the assembly of one row from its listing texts: lines 617-622, 640-663
\* and the call of extract_numeric_features of line 664
AssembleListing ==
    /\ pc = "listing"
    /\ output' =
          LET listed == ListingPrice(input.price)
          IN extract_numeric_features(
                 HotelFields(<<1, 0>>, listed.price, listed.currency,
                             input.review_count, input.user_rating,
                             input.star_rating, <<>>, <<>>))
    /\ pc' = "done"
    /\ UNCHANGED rest

NextNumeric == AssembleListing

SpecNumeric == InitNumeric /\ [][NextNumeric]_vars

(***************************************************************************)
(* Properties.                                                             *)
(***************************************************************************)
\* the row's call of extract_hotel_reviews has returned
Returned == pc = "assemble"

IsPlaceholder(r) == StartsWithMarker(r)

RECURSIVE NonPlaceholders(_)
NonPlaceholders(rs) ==
    IF rs = <<>> THEN <<>>
    ELSE IF IsPlaceholder(Head(rs)) THEN NonPlaceholders(Tail(rs))
    ELSE <<Head(rs)>> \o NonPlaceholders(Tail(rs))

\* C1: on every exit of extract_hotel_reviews the excerpt sequence returned
\* for the row has exactly 5 entries, and so has the sequence stored in
\* every ListingRecord.
C1_ExcerptsAreFive ==
    /\ Returned => Len(recent_reviews) = 5
    /\ \A k \in 1..Len(hotels_data) : Len(hotels_data[k].recent_reviews) = 5

\* C1 witness: a harvest that a navigation fault cut short has returned five
\* excerpts, placeholders among them.
C1_Witness ==
    /\ Returned
    /\ faults > 0
    /\ scrape_reviews
    /\ RowPage.link # ""
    /\ Len(recent_reviews) = 5
    /\ \E k \in 1..5 : IsPlaceholder(recent_reviews[k])

\* C2: whenever extract_hotel_reviews has finished for a row, the active
\* browsing context is the listing context the row started in.
C2_ListingContextRestored == Returned => current = Listing

\* C3: at most two browsing contexts are open at any time, and the detail
\* contexts opened for a row are closed when the row is complete.
C3_AtMostTwoContexts ==
    /\ Len(windows) <= 2
    /\ pc \in {"assemble", "locate", "fields", "inline", "done"}
          => windows = <<Listing>>

\* C4: in a headless session a CAPTCHA keyword found on the detail page
\* aborts the harvest of the row: no extraction, no pagination and no
\* further navigation attempt follow.
C4_HeadlessCaptchaAborts ==
    (headless /\ captcha_found /\ faults = 0)
        => pc \notin {"tab", "extract", "paginate", "close", "attempt",
                      "open", "switch", "handler"}

\* C5: the finalized sequence is the first min(v, 5) of the v valid excerpts
\* collected, in collection order, followed by 5 - min(v, 5) placeholders.
C5_ValidThenPlaceholders ==
    Returned =>
        LET m == Min(Len(valid_reviews), 5)
        IN /\ Len(recent_reviews) = 5
           /\ \A k \in 1..m : recent_reviews[k] = valid_reviews[k]
           /\ \A k \in (m + 1)..5 : IsPlaceholder(recent_reviews[k])

\* the pipeline positions inside the attempt loop of lines 224-327
NavPcs ==
    {"attempt", "open", "switch", "captcha", "tab", "extract", "paginate",
     "close", "handler"}

\* the steps one attempt still has before it, at most
AttemptRank ==
    CASE pc = "attempt" -> 19
      [] pc = "open" -> 18
      [] pc = "switch" -> 17
      [] pc = "captcha" -> 16
      [] pc = "tab" -> 15
      [] pc = "extract" -> 14
      [] pc = "paginate" -> 13 - round
      [] pc = "close" -> 7
      [] pc = "handler" -> 6

\* the steps the active row still has before it, at most
RowRank ==
    CASE pc \in NavPcs -> 10 + (3 - attempt) * 20 + AttemptRank
      [] pc = "locate" -> 92
      [] pc = "fields" -> 91
      [] pc = "inline" -> 90
      [] pc = "finalize" -> 5
      [] pc = "assemble" -> 4

\* the steps the run still has before it, at most
StepsLeft ==
    CASE pc = "done" -> 0
      [] pc = "start" -> (max_hotels + 1) * 100
      [] OTHER -> (max_hotels - i) * 100 + RowRank

\* C6: the harvest of every row terminates and the walk completes: at most 3
\* navigation attempts and 5 pagination rounds are counted, and every step
\* of the run lowers a bound on the steps left before scrape_hotel_data
\* returns.
C6_WalkCompletes ==
    /\ [](attempt <= 3 /\ round <= 5 /\ i <= max_hotels /\ StepsLeft >= 0)
    /\ [][StepsLeft' < StepsLeft]_vars

\* C6 witness: the walk has completed after a row that went through a
\* navigation attempt with pagination and a fault.
C6_Witness ==
    /\ pc = "done"
    /\ hotels_data # <<>>
    /\ faults > 0
    /\ \E k \in 1..Len(all_reviews) : ~IsPlaceholder(all_reviews[k].review_text)

\* C7: a detail context is opened only in the attempt loop, which a row
\* enters only from the inline collection, with detail harvesting enabled
\* and fewer than 5 valid inline excerpts; otherwise the harvester goes from
\* the inline collection straight to finalization.
C7_DetailOnlyWhenNeeded ==
    [][/\ Len(windows') > Len(windows) => pc = "open"
       /\ (pc' \in NavPcs /\ pc \notin NavPcs)
          => /\ pc = "inline"
             /\ scrape_reviews
             /\ Len(NonPlaceholders(recent_reviews')) < 5
       /\ (pc = "inline"
           /\ ~(scrape_reviews /\ Len(NonPlaceholders(recent_reviews')) < 5))
          => pc' = "finalize"]_vars

\* C7 witness: a detail context was opened for a row with fewer than 5
\* inline excerpts.
C7_Witness ==
    /\ pc = "switch"
    /\ Len(windows) = 2
    /\ scrape_reviews
    /\ attempt = 0
    /\ Len(recent_reviews) \in 1..4

\* C8: the sentiment score of a finalized row is computed from exactly its
\* non-placeholder excerpts: 2 valid and 3 placeholder excerpts score as the
\* 2 valid ones alone (5/6 for V1, V2), placeholders alone score 0.
C8_PlaceholdersDoNotCount ==
    \A k \in 1..Len(hotels_data) :
        LET rec == hotels_data[k]
            vs == NonPlaceholders(rec.recent_reviews)
        IN /\ rec.avg_sentiment_score = calculate_sentiment_score(vs)
           /\ vs = <<>> => rec.avg_sentiment_score = <<0, 1>>
           /\ vs = <<V1, V2>> => rec.avg_sentiment_score = <<5, 6>>

\* C8 witness: a finalized row with 2 valid and 3 placeholder excerpts.
C8_Witness ==
    \E k \in 1..Len(hotels_data) :
        /\ Len(NonPlaceholders(hotels_data[k].recent_reviews)) = 2
        /\ Len(hotels_data[k].recent_reviews) = 5

\* C9: every ReviewRecord of a finalized row carries the
\* avg_sentiment_score of its ListingRecord.
C9_SharedSentiment ==
    \A k \in 1..Len(hotels_data) : \A j \in 1..Len(all_reviews) :
        all_reviews[j].hotel_id = hotels_data[k].hotel_id
            => all_reviews[j].review_sentiment_score
                  = hotels_data[k].avg_sentiment_score

\* C10: when row i is not located within the wait budget the walk stops: no
\* later position is attempted, no record exists for position i or a later
\* one, and with i = 0 the collection returned is empty.
C10_StopsAtMissingRow ==
    log = "not_found" =>
        /\ pc = "done"
        /\ \A k \in 1..Len(hotels_data) : hotels_data[k].hotel_id[1] < i
        /\ i = 0 => hotels_data = <<>>

\* C10 witness: the walk stopped at position 1 after the record of row 0.
C10_Witness ==
    /\ log = "not_found"
    /\ i = 1
    /\ Len(hotels_data) = 1
    /\ max_hotels > 1

\* a step in which an exception of row i reaches the handler of line 668
RowFaultStep ==
    /\ i' = i + 1
    /\ log' = "row_error"
    /\ faults' > faults \/ current = Closed

Positions ==
    {"start", "locate", "fields", "inline", "finalize", "assemble", "done"}
        \cup NavPcs

\* C12: scrape_hotel_data never lets a fault through to its caller: the
\* thread of control stays inside the function until it returns, a page load
\* that fails ends in the return of the empty collection, and no record
\* collected is ever dropped from the collection that is returned.
C12_NoFaultPropagates ==
    /\ [](pc \in Positions)
    /\ [](log = "run_error" => pc = "done" /\ hotels_data = <<>>)
    /\ [][/\ Len(hotels_data') >= Len(hotels_data)
          /\ Take(hotels_data', Len(hotels_data)) = hotels_data]_vars

\* C12 witness: the page load failed and scrape_hotel_data returned the
\* empty collection.
C12_Witness ==
    /\ pc = "done"
    /\ log = "run_error"
    /\ faults > 0
    /\ max_hotels > 0
    /\ hotels_data = <<>>

\* extract_temporal_features has returned
TemporalReturned == pc = "done" /\ input # None /\ "query" \in DOMAIN input

\* both parameters of the query have a well-formed value
WellFormedPair ==
    /\ strptime_mdY(Param(input.query, "checkin")) # None
    /\ strptime_mdY(Param(input.query, "checkout")) # None

\* C13: for a well-formed checkin/checkout pair, days_ahead is the number of
\* calendar days from the current date to the check-in date, negative for a
\* check-in in the past, whatever the time of day (current date 2025-07-01
\* and checkin 08022025 give 32).
C13_LeadTimeIsCalendarDays ==
    (TemporalReturned /\ WellFormedPair) =>
        /\ output.days_ahead
              = Ordinal(strptime_mdY(Param(input.query, "checkin")))
                  - Ordinal(input.now.date)
        /\ (/\ input.query.checkin = Mdy(8, 2, 2025)
            /\ input.now.date = <<2025, 7, 1>>) => output.days_ahead = 32

\* the season table of the claim
SeasonTable ==
    [m \in 1..12 |->
        CASE m \in {12, 1, 2} -> "Winter"
          [] m \in {3, 4, 5} -> "Spring"
          [] m \in {6, 7, 8} -> "Summer"
          [] m \in {9, 10, 11} -> "Autumn"]

\* C14: whenever the result carries a check-in date, which it does for
\* every well-formed checkin/checkout pair, the season is the one the table
\* gives for the check-in month (the month of the date returned, the MM of
\* a parameter MMDDYYYY): one of the four labels, never empty.
C14_SeasonByMonth ==
    TemporalReturned =>
        /\ WellFormedPair => output.checkin_date # <<>>
        /\ output.checkin_date # <<>> =>
              /\ output.season \in {"Winter", "Spring", "Summer", "Autumn"}
              /\ output.season
                    = SeasonTable[IntOf(SubSeq(output.checkin_date, 6, 7))]
        /\ (WellFormedPair /\ Len(input.query.checkin) = 8) =>
              output.season = SeasonTable[IntOf(SubSeq(input.query.checkin, 1, 2))]

\* C14 witness: a check-in in December has returned with its season.
C14_Witness ==
    /\ TemporalReturned
    /\ WellFormedPair
    /\ input.query.checkin = Mdy(12, 31, 2024)
    /\ output.season = "Winter"

\* C15: when checkin or checkout is missing, empty or malformed the function
\* returns the defaults (search date = current date, no dates, lead time 0,
\* no weekday, no season) and raises nothing; no result has a check-in date
\* without a season, or a lead time other than 0 without a check-in date.
C15_DefaultsOnBadParameters ==
    TemporalReturned =>
        /\ "raised" \notin DOMAIN output
        /\ ~WellFormedPair =>
              output = [search_date |-> strftime_Ymd(input.now.date),
                        checkin_date |-> <<>>, checkout_date |-> <<>>,
                        days_ahead |-> 0, day_of_week |-> "", season |-> ""]
        /\ output.checkin_date # <<>> => output.season # ""
        /\ output.days_ahead # 0 => output.checkin_date # <<>>

\* C15 witness: a well-formed checkin with a malformed checkout has returned
\* the defaults.
C15_Witness ==
    /\ TemporalReturned
    /\ strptime_mdY(Param(input.query, "checkin")) # None
    /\ Param(input.query, "checkout") = <<"x">>
    /\ output.checkin_date = <<>>
    /\ output.days_ahead = 0

\* calculate_sentiment_score has returned
SentimentReturned == pc = "done" /\ output # None

\* the tokens of all the texts of a list
RECURSIVE Tokens(_)
Tokens(texts) ==
    IF texts = <<>> THEN <<>> ELSE Head(texts) \o Tokens(Tail(texts))

\* C16: the score lies in [-1, 1]; a list without texts or without tokens
\* scores exactly 0; a list whose tokens are all positive words scores more
\* than 0.  (That equal inputs give equal results holds of any function of
\* the input alone and is not part of the formula.)
C16_SentimentBounded ==
    SentimentReturned =>
        /\ output[2] > 0
        /\ -output[2] <= output[1] /\ output[1] <= output[2]
        /\ Tokens(input) = <<>> => output = <<0, 1>>
        /\ (/\ Tokens(input) # <<>>
            /\ \A k \in 1..Len(Tokens(input)) :
                  Lower(Tokens(input)[k]) \in positive_words)
              => output[1] > 0

\* C16 witness: one positive word among twelve tokens has scored 5/6,
\* inside the interval.
C16_Witness ==
    /\ SentimentReturned
    /\ input = <<V1, V2>>
    /\ output = <<5, 6>>

\* the row has been assembled from its listing texts
ListingAssembled == pc = "done" /\ output # None

\* the first numeric run of a text, read with its thousands separators and
\* its decimal point (None when the text has no digit)
FirstNumber(text) ==
    LET from == DropUntil(text, DigitChars)
        int == TakeWhile(from, DigitChars \cup {","})
        after == Drop(from, Len(int))
        frac == IF after # <<>> /\ Head(after) = "."
                THEN TakeWhile(Tail(after), DigitChars) ELSE <<>>
    IN IF from = <<>> THEN None ELSE Decimal(RemoveCommas(int), frac)

HasDigit(text) == Range(text) \cap DigitChars # {}

\* C17: a row whose price text is the rupee sign followed by digits is
\* assembled with currency "INR" and the price read as a number
\* (rupee sign + "5,499" gives 5499.0)
C17_RupeePriceIsINR ==
    (/\ ListingAssembled
     /\ Len(input.price) > 1
     /\ Head(input.price) = RupeeSign
     /\ Head(Tail(input.price)) \in DigitChars)
        => /\ output.currency = "INR"
           /\ output.price_numeric = FirstNumber(input.price)
           /\ input.price = <<RupeeSign>> \o Chars("5,499")
                 => output.price_numeric = <<5499, 1>>

\* the texts extract_numeric_features reads numbers from, and the values
NumericTexts ==
    <<output.price, output.review_count, output.user_rating>>

NumericValues ==
    <<output.price_numeric, output.review_count_numeric,
      output.rating_numeric>>

\* a float or an int as a rational
AsRat(v) == IF Len(v) = 1 THEN <<v[1], 1>> ELSE v

\* C18: a price, review-count or rating text without a digit gives None,
\* never 0; a numeric value is 0 only when the first numeric run of its text
\* is zero; an empty star-rating marker gives no star count
C18_AbsentNeverZero ==
    ListingAssembled =>
        /\ \A f \in 1..3 :
              /\ ~HasDigit(NumericTexts[f]) => NumericValues[f] = None
              /\ (NumericValues[f] # None /\ AsRat(NumericValues[f])[1] = 0)
                    => FirstNumber(NumericTexts[f])[1] = 0
        /\ output.star_rating = <<>> => output.star_rating_numeric = None

\* C19: the numeric value of a price, review-count or rating text with a
\* number in it is the first numeric run of the text, read with its
\* thousands separators and its decimal point
C19_FirstNumericRun ==
    ListingAssembled =>
        \A f \in 1..3 :
            HasDigit(NumericTexts[f])
                => /\ NumericValues[f] # None
                   /\ AsRat(NumericValues[f]) = FirstNumber(NumericTexts[f])

\* the first candidate of lists with matched elements (0 when there is none)
FirstMatching(lists) ==
    LET ks == {k \in 1..Len(lists) : lists[k] # <<>>}
    IN IF ks = {} THEN 0 ELSE CHOOSE k \in ks : \A j \in ks : k <= j

\* result comes from the first candidate of lists with matched elements
FromFirstMatch(result, lists) ==
    IF FirstMatching(lists) = 0 THEN result = <<>>
    ELSE Range(result) \subseteq Range(lists[FirstMatching(lists)])

\* the call of extract_hotel_reviews leaves the inline collection
InlineStep == pc = "inline" /\ pc' # "inline"

\* C20 as claimed: the inline excerpts and the highlight tags of a row come
\* from the first candidate whose match set is non-empty, no lower-priority
\* candidate contributes, and the result is empty when no candidate matches
C20_FirstNonEmptyMatch ==
    [][InlineStep => /\ FromFirstMatch(recent_reviews', RowPage.inline)
                     /\ FromFirstMatch(review_highlights',
                                       RowPage.highlights)]_vars

\* the excerpts the first five matches of candidates 1..k offer: the texts
\* of more than 20 characters
ExcerptPool(lists, k) ==
    UNION {{t \in Range(Take(lists[j], 5)) : CharLen(t) > 20} : j \in 1..k}

\* the candidate at which five excerpts are reached (the last when none)
ExcerptStop(lists) ==
    LET ks == {k \in 1..Len(lists) : Cardinality(ExcerptPool(lists, k)) >= 5}
    IN IF ks = {} THEN Len(lists) ELSE CHOOSE k \in ks : \A j \in ks : k <= j

\* the tags the first five matches of candidate k offer: the texts that are
\* not empty and have fewer than 50 characters
TagPool(lists, k) ==
    {t \in Range(Take(lists[k], 5)) : t # <<>> /\ CharLen(t) < 50}

\* the tags of the first candidate that offers one
FirstTags(lists) ==
    LET ks == {k \in 1..Len(lists) : TagPool(lists, k) # {}}
    IN IF ks = {} THEN {}
       ELSE TagPool(lists, CHOOSE k \in ks : \A j \in ks : k <= j)

NoRepeats(s) == Cardinality(Range(s)) = Len(s)

\* C20, amended: the inline excerpts are the acceptable texts of the
\* candidates in list order up to the one at which five are reached, so a
\* lower-priority candidate contributes while fewer than five are
\* collected; the highlight tags are those of the first candidate that
\* offers an acceptable tag; nothing is collected twice, a failed lookup
\* only leaves texts out, and no match gives an empty result
C20_InlineAccumulates ==
    [][InlineStep =>
        LET pool == ExcerptPool(RowPage.inline, ExcerptStop(RowPage.inline))
            tags == FirstTags(RowPage.highlights)
        IN /\ NoRepeats(recent_reviews') /\ NoRepeats(review_highlights')
           /\ Range(recent_reviews') \subseteq pool
           /\ Range(review_highlights') \subseteq tags
           /\ faults' = faults => /\ Range(recent_reviews') = pool
                                  /\ Range(review_highlights') = tags]_vars

\* a second candidate has contributed excerpts after the first had matched,
\* and a highlight tag was collected
C20_Witness ==
    /\ pc = "finalize"
    /\ RowPage.present
    /\ RowPage.inline[1] # <<>>
    /\ \E t \in Range(RowPage.inline[2]) \ Range(RowPage.inline[1]) :
          t \in Range(recent_reviews)
    /\ review_highlights # <<>>

\* the identifiers of the ListingRecords collected so far
ListedIds == {hotels_data[k].hotel_id : k \in DOMAIN hotels_data}

\* the parent identifiers of the ReviewRecords collected so far
ParentIds == {all_reviews[k].hotel_id : k \in DOMAIN all_reviews}

\* C21: every ReviewRecord has a parent among the ListingRecords the run
\* returns, also for a row that was skipped after a fault; while a row is
\* harvested its ReviewRecords carry the identifier of that row
C21_ReviewsHaveParent ==
    /\ pc = "done" => ParentIds \subseteq ListedIds
    /\ ParentIds \subseteq ListedIds \cup {hotel_id}

\* the run has ended with ReviewRecords of a row whose scroll faulted
C21_Witness ==
    /\ pc = "done"
    /\ log = "row_error"
    /\ faults > 0
    /\ ParentIds # {}
    /\ ParentIds = ListedIds

\* C22: the hotel identifiers of the ListingRecords of one run are pairwise
\* distinct, whatever the capture times of the rows are
C22_HotelIdsDistinct ==
    \A a, b \in DOMAIN hotels_data :
        a # b => hotels_data[a].hotel_id # hotels_data[b].hotel_id

\* two rows captured within the same second have produced their records
C22_Witness ==
    /\ Len(hotels_data) = 2
    /\ hotels_data[1].hotel_id[2] = hotels_data[2].hotel_id[2]

\* C23: no two ReviewRecords of the accumulated collection share a
\* review_id, and no review text of one hotel is recorded twice, after any
\* sequence of navigation attempts, pagination rounds and backfill
C23_ReviewIdsUnique ==
    \A a, b \in DOMAIN all_reviews :
        a # b => /\ all_reviews[a].review_id # all_reviews[b].review_id
                 /\ all_reviews[a].hotel_id = all_reviews[b].hotel_id
                       => all_reviews[a].review_text
                             # all_reviews[b].review_text

\* C24: a fault of navigation attempt k < 3 that reaches the handler of
\* the attempt, wherever in the attempt it was raised, is handled inside the
\* loop: the listing context is restored and attempt k + 1 follows
C24_AttemptFaultHandled ==
    [][(pc = "handler" /\ attempt < max_attempts - 1)
          => /\ pc' = "attempt"
             /\ attempt' = attempt + 1
             /\ current' = Listing]_vars

\* C25: the finalized excerpt sequence of a row holds no two equal entries,
\* and every entry of it that is not a placeholder is a text of more than 20
\* characters, whichever of the listing row, the detail page or a
\* pagination round it came from
C25_FinalizedDistinctAndLong ==
    pc = "assemble" =>
        /\ \A a, b \in DOMAIN recent_reviews :
              a # b => recent_reviews[a] # recent_reviews[b]
        /\ \A a \in DOMAIN recent_reviews :
              ~StartsWithMarker(recent_reviews[a])
                  => CharLen(recent_reviews[a]) > 20

\* a ReviewRecord of a row that is complete (a row before row i)
OfCompletedRow(r) == r.hotel_id[1] < i

\* C26: the rows after a complete row leave its ListingRecord and its
\* ReviewRecords as they are: both collections only grow by appending, and
\* the sentiment assignment of a row changes only the ReviewRecords whose
\* parent is that row, and nothing but their score
C26_CompletedRowsUntouched ==
    [][/\ Len(hotels_data') >= Len(hotels_data)
       /\ Take(hotels_data', Len(hotels_data)) = hotels_data
       /\ Len(all_reviews') >= Len(all_reviews)
       /\ \A k \in DOMAIN all_reviews :
             /\ OfCompletedRow(all_reviews[k])
                   => all_reviews'[k] = all_reviews[k]
             /\ all_reviews'[k] # all_reviews[k]
                   => /\ all_reviews[k].hotel_id = hotel_id
                      /\ [all_reviews'[k] EXCEPT
                            !.review_sentiment_score = None]
                         = [all_reviews[k] EXCEPT
                              !.review_sentiment_score = None]]_vars

\* a later row has returned from its harvest with a score that differs from
\* the score of the ReviewRecords of a complete row
C26_Witness ==
    /\ pc = "assemble"
    /\ \E a, b \in DOMAIN all_reviews :
          /\ OfCompletedRow(all_reviews[a])
          /\ all_reviews[b].hotel_id = hotel_id
          /\ all_reviews[a].review_sentiment_score
                # all_reviews[b].review_sentiment_score

\* a navigation attempt of the row starts (the body of the loop of line 224)
AttemptStarts == pc = "attempt" /\ attempt < max_attempts

\* C27: a row sees at most 3 navigation attempts, and no attempt starts
\* once the excerpts collected for the row have reached 5
C27_AttemptsBounded ==
    /\ attempt <= 3
    /\ pc \in {"open", "switch", "captcha", "tab", "extract", "paginate",
               "close", "handler"} => attempt < 3
    /\ AttemptStarts => Len(recent_reviews) < 5

\* a pagination round runs its re-extraction (lines 498-520)
RoundRuns == pc = "paginate" /\ round' = round + 1

\* C28: within one visit of the detail page "load more" is invoked only
\* while fewer than 5 excerpts have been extracted, at most 5 rounds are
\* run, and the extraction is re-run only in a round in which a "load more"
\* control was found and invoked
C28_PaginationBounded ==
    /\ [](round <= 5)
    /\ [][RoundRuns => /\ Len(reviews) < 5
                       /\ ShowMoreClickable(RowPage, shown)]_vars

\* C29: once extract_hotel_reviews has returned for a row, whatever the
\* path it took, every ReviewRecord of the row carries a sentiment score;
\* the records of the rows before it keep theirs
C29_SentimentAssigned ==
    \A k \in DOMAIN all_reviews :
        (\/ pc = "assemble" /\ all_reviews[k].hotel_id = hotel_id
         \/ all_reviews[k].hotel_id \in ListedIds)
            => all_reviews[k].review_sentiment_score # None

\* a harvest that met a fault has returned with a ReviewRecord taken from
\* the detail page
C29_Witness ==
    /\ pc = "assemble"
    /\ faults > 0
    /\ \E k \in DOMAIN all_reviews :
          /\ all_reviews[k].hotel_id = hotel_id
          /\ ~StartsWithMarker(all_reviews[k].review_text)
          /\ all_reviews[k].review_sentiment_score # None

====
